---- MODULE Spec2Model ----
(***************************************************************************)
(* Model of the scheduler and synchronisation core of thread.cpp.          *)
(*                                                                         *)
(* Granularity: one step is one stretch of code executed by one CPU with   *)
(* the guard held, from lock() (or from the return of a context switch)    *)
(* to unlock() (or to the next context switch in run_next).  Other CPUs    *)
(* spin in lock() meanwhile, so nothing interleaves inside a stretch.      *)
(* While a stretch has ended in a context switch, guard = the switching    *)
(* CPU and only that CPU's resumed thread can step (action resume).        *)
(*                                                                         *)
(* User code is arbitrary: a running user thread may call any public       *)
(* operation, or return from its function, at any time.                    *)
(***************************************************************************)
EXTENDS Naturals, Sequences, FiniteSets

\* ---------------------------------------------------------------- bounds
NCPU == 2          \* CPUs that run cpu::init
MaxUser == 2       \* user threads ever constructed (the main thread included), Spec
MaxUserSync == 3   \* the same for SpecSync, whose user code moves no handles
NHandle == 2       \* addresses at which a thread handle object can live
MaxSusp == 2       \* timer wake-ups of a parked CPU stop once suspended_queue is this long

CPUS == 1..NCPU
IDLE_THREADS == 1..NCPU                    \* the idle thread made by CPU c is thread c
USER_THREADS == (NCPU + 1)..(NCPU + MaxUserSync)
THREADS == IDLE_THREADS \cup USER_THREADS
HANDLES == 1..NHandle
MUTEXES == {1}
CVS == {1}
NULL == 0

VARIABLES
  guard,            \* 0, or the CPU that holds the guard (interrupts disabled on it)
  current_thd,      \* cpu::impl::current_thd of every CPU
  ready_queue, idle_queue, suspended_queue, last_free_thread,
  st,               \* per thread: where its saved or running context stands
  parent,           \* thread::impl::parent (a handle address, or NULL)
  join_thd,         \* thread::impl::join_thd
  impl_ptr,         \* thread::impl_ptr of the handle at each address
  hlive,            \* whether a handle object currently lives at the address
  own_thd,          \* mutex::impl::own_thd
  mutex_thd_q,      \* mutex::impl::thd_q
  cv_thd_q,         \* cv::impl::thd_q
  wait_mtx,         \* the mtx argument of a thread inside cv::impl::wait
  join_on,          \* the impl a thread inside thread::join pushed itself on
  boot,             \* per CPU: how far cpu::init has come
  user_limit,       \* how many user threads the user code of this run constructs at most
  fault,            \* run_next found ready_queue and idle_queue both empty
  raised,           \* the call of the last step that threw and its runtime_error, or "none"
  wake_owed,        \* history: a thread was pushed on ready_queue while a CPU was
                    \* parked, and no IPI has been sent since
  interrupts        \* per CPU: interrupts are enabled (cpu::interrupt_enable/_disable)

vars == <<guard, current_thd, ready_queue, idle_queue, suspended_queue,
          last_free_thread, st, parent, join_thd, impl_ptr, hlive, own_thd,
          mutex_thd_q, cv_thd_q, wait_mtx, join_on, boot, user_limit, fault, raised, wake_owed,
          interrupts>>

handle_vars == <<parent, impl_ptr, hlive>>
sync_vars == <<own_thd, mutex_thd_q, cv_thd_q, wait_mtx>>

Range(q) == {q[i] : i \in 1..Len(q)}

IsIdle(t) == t \in IDLE_THREADS

\* The CPU is inside cpu::interrupt_enable_suspend.
Parked(stf, c) == current_thd[c] # NULL /\ stf[current_thd[c]] = "parked"

\* The scheduler state a guard-held stretch works on before it switches or returns.
K0 == [rq |-> ready_queue, sq |-> suspended_queue, st |-> st, owed |-> wake_owed]

\* Mutant: the thread is put in front of the threads already waiting.
ready_push_front(k, t) ==
  [k EXCEPT !.rq = <<t>> \o @,
            !.owed = @ \/ (\E c \in CPUS : Parked(k.st, c))]

\* ready_queue.push(t), with the history of whether a CPU was parked then.
ready_push(k, t) ==
  [k EXCEPT !.rq = Append(@, t),
            !.owed = @ \/ (\E c \in CPUS : Parked(k.st, c))]

\* cpu::interrupt_send: the IPI handler is empty, the IPI only ends a suspend.
interrupt_send(stf, c) ==
  IF Parked(stf, c) THEN [stf EXCEPT ![current_thd[c]] = "idle_lock"] ELSE stf

wakeup_one_cpu(k) ==
  IF k.rq # <<>> /\ k.sq # <<>>
  THEN [k EXCEPT !.sq = Tail(@), !.st = interrupt_send(k.st, Head(k.sq)), !.owed = FALSE]
  ELSE k

\* Mutant: the loop takes the waiters from the back of the queue.
RECURSIVE drain_reverse(_, _)
drain_reverse(k, q) ==
  IF q = <<>> THEN k
  ELSE drain_reverse(wakeup_one_cpu(ready_push(k, q[Len(q)])), SubSeq(q, 1, Len(q) - 1))

\* while (!q.empty()) { ready_queue.push(q.front()); q.pop(); wakeup_one_cpu(); }
\* (the loop of cv::impl::broadcast; thread_start's loop differs only in the
\* place of the pop)
RECURSIVE drain(_, _)
drain(k, q) ==
  IF q = <<>> THEN k ELSE drain(wakeup_one_cpu(ready_push(k, Head(q))), Tail(q))

\* Mutant: unlock releases the mutex and only wakes the head waiter.
mutex_unlock_release(k, q) ==
  IF q # <<>>
  THEN [own |-> NULL, q |-> Tail(q), k |-> wakeup_one_cpu(ready_push(k, Head(q)))]
  ELSE [own |-> NULL, q |-> q, k |-> k]

\* Mutant: unlock hands the mutex to the waiter that came last.
mutex_unlock_lifo(k, q) ==
  IF q # <<>>
  THEN [own |-> q[Len(q)], q |-> SubSeq(q, 1, Len(q) - 1),
        k |-> wakeup_one_cpu(ready_push(k, q[Len(q)]))]
  ELSE [own |-> NULL, q |-> q, k |-> k]

\* mutex::impl::unlock after the ownership test: the new owner, queue and scheduler state.
mutex_unlock_handoff(k, q) ==
  IF q # <<>>
  THEN [own |-> Head(q), q |-> Tail(q), k |-> wakeup_one_cpu(ready_push(k, Head(q)))]
  ELSE [own |-> NULL, q |-> q, k |-> k]

\* Mutant: run_next and thread_start forget the delete.
free_st_leak(stf) == stf

\* Mutant: the thread is deleted and the slot keeps pointing at it.
free_slot_kept == last_free_thread

\* last_free_thread = nullptr; after the delete in run_next and thread_start.
free_slot == NULL

\* delete last_free_thread; last_free_thread = nullptr;  (with ~impl's write
\* through the back-link)
free_st(stf) ==
  IF last_free_thread = NULL THEN stf ELSE [stf EXCEPT ![last_free_thread] = "freed"]
free_impl_ptr ==
  IF last_free_thread # NULL /\ parent[last_free_thread] # NULL
  THEN [impl_ptr EXCEPT ![parent[last_free_thread]] = NULL] ELSE impl_ptr
free_parent ==
  IF last_free_thread = NULL THEN parent ELSE [parent EXCEPT ![last_free_thread] = NULL]

\* A stretch of CPU c that ends by returning to the caller: the lock_guard (or
\* unlock(), or the idle loop's unlock-and-suspend) stores 0 to the guard and
\* then enables the interrupts of the CPU.
Return(c, k) ==
  /\ ready_queue' = k.rq
  /\ suspended_queue' = k.sq
  /\ st' = k.st
  /\ wake_owed' = k.owed
  /\ guard' = 0
  /\ interrupts' = [interrupts EXCEPT ![c] = TRUE]
  /\ UNCHANGED <<current_thd, idle_queue, fault, user_limit>>

\* cpu::impl::run_next up to its context switch; the calling thread's context
\* is saved at `label`.  iq is idle_queue as the caller left it.
run_next(c, k, iq, label) ==
  LET old == current_thd[c]
      st1 == IF old = NULL THEN k.st ELSE [k.st EXCEPT ![old] = label]
  IN /\ suspended_queue' = k.sq
     /\ UNCHANGED user_limit
     /\ wake_owed' = k.owed
     /\ guard' = c
     /\ interrupts' = [interrupts EXCEPT ![c] = FALSE]
     /\ IF k.rq # <<>>
        THEN /\ current_thd' = [current_thd EXCEPT ![c] = Head(k.rq)]
             /\ ready_queue' = Tail(k.rq)
             /\ idle_queue' = iq
             /\ st' = st1
             /\ fault' = FALSE
        ELSE IF iq # <<>>
        THEN /\ current_thd' = [current_thd EXCEPT ![c] = Head(iq)]
             /\ ready_queue' = k.rq
             /\ idle_queue' = Tail(iq)
             /\ st' = st1
             /\ fault' = FALSE
        ELSE /\ fault' = TRUE
             /\ st' = k.st
             /\ ready_queue' = k.rq
             /\ idle_queue' = iq
             /\ UNCHANGED current_thd

\* Mutant: lock() disables interrupts and goes on without the guard.
UserAt_nospin(c) ==
  /\ ~fault
  /\ current_thd[c] # NULL
  /\ st[current_thd[c]] = "user"

\* A user thread is running user code on CPU c and lock() gets the guard: the
\* exchange in its loop found 0.
UserAt(c) ==
  /\ guard = 0 /\ ~fault
  /\ current_thd[c] # NULL
  /\ st[current_thd[c]] = "user"

InitWith(limit) ==
  /\ user_limit = limit
  /\ guard = 0
  /\ current_thd = [c \in CPUS |-> NULL]
  /\ ready_queue = <<>> /\ idle_queue = <<>> /\ suspended_queue = <<>>
  /\ last_free_thread = NULL
  /\ st = [t \in THREADS |-> "none"]
  /\ parent = [t \in THREADS |-> NULL]
  /\ join_thd = [t \in THREADS |-> <<>>]
  /\ impl_ptr = [h \in HANDLES |-> NULL]
  /\ hlive = [h \in HANDLES |-> FALSE]
  /\ own_thd = [m \in MUTEXES |-> NULL]
  /\ mutex_thd_q = [m \in MUTEXES |-> <<>>]
  /\ cv_thd_q = [v \in CVS |-> <<>>]
  /\ wait_mtx = [t \in THREADS |-> NULL]
  /\ join_on = [t \in THREADS |-> NULL]
  /\ boot = [c \in CPUS |-> "off"]
  /\ fault = FALSE
  /\ raised = "none"
  /\ wake_owed = FALSE
  /\ interrupts = [c \in CPUS |-> FALSE]

Init == InitWith(MaxUser)
InitSync == InitWith(MaxUserSync)

\* ------------------------------------------------------------- cpu::init
\* The CPU whose cpu::init is given a non-null fn.
HasMain(c) == c = 1

FreshThreads ==
  IF Cardinality({t \in USER_THREADS : st[t] # "none"}) < user_limit
  THEN {t \in USER_THREADS : st[t] = "none"} ELSE {}
\* new thread::impl: the allocator hands out an address not in use.
NewThread == CHOOSE t \in FreshThreads : \A u \in FreshThreads : t <= u

\* thread::impl::impl for a user function: the context is made at thread_start,
\* the thread goes on ready_queue and a CPU is woken.
impl_ctor(k, t) == wakeup_one_cpu(ready_push([k EXCEPT !.st[t] = "start"], t))

\* cpu::init is entered with interrupts disabled (line 160: "also enable
\* interrupt"); its first lines take the guard, route both vectors to
\* ipi_handler and unlock(), which enables interrupts.
\* cpu::init, `thread cpu_main_thread{fn, arg};` in its block: the handle is
\* destroyed at the end of the block, which clears the back-link again.
cpu_init_main(c) ==
  /\ guard = 0 /\ ~fault
  /\ boot[c] = "off" /\ HasMain(c)
  /\ FreshThreads # {}
  /\ Return(c, impl_ctor(K0, NewThread))
  /\ boot' = [boot EXCEPT ![c] = "main"]
  /\ raised' = "none"
  /\ UNCHANGED <<last_free_thread, join_thd, join_on, handle_vars, sync_vars>>

\* cpu::init, `thread cpu_idle_thread{idle_func, nullptr};`: fn == idle_func,
\* so the thread goes on idle_queue and nobody is woken.
cpu_init_idle(c) ==
  /\ guard = 0 /\ ~fault
  /\ boot[c] = (IF HasMain(c) THEN "main" ELSE "off")
  /\ idle_queue' = Append(idle_queue, c)
  /\ st' = [st EXCEPT ![c] = "start"]
  /\ boot' = [boot EXCEPT ![c] = "idle"]
  /\ interrupts' = [interrupts EXCEPT ![c] = TRUE]
  /\ raised' = "none"
  /\ UNCHANGED <<guard, current_thd, ready_queue, suspended_queue, last_free_thread,
                 join_thd, join_on, handle_vars, sync_vars, fault, wake_owed, user_limit>>

\* cpu::init, lock(); install timer_handler; run_next() with current_thd null.
cpu_init_run(c) ==
  /\ guard = 0 /\ ~fault
  /\ boot[c] = "idle"
  /\ run_next(c, K0, idle_queue, "none")
  /\ boot' = [boot EXCEPT ![c] = "run"]
  /\ raised' = "none"
  /\ UNCHANGED <<last_free_thread, join_thd, join_on, handle_vars, sync_vars>>

\* ------------------------------------------------- resuming after a switch
\* Where a thread resumed at `label` is once the guard is released: an idle
\* thread is back in idle_func in front of lock(), a user thread in user code.
AfterReturn(t) == IF IsIdle(t) THEN "idle_lock" ELSE "user"

\* mutex::impl::lock: TRUE when the caller has to wait.
mutex_lock_blocks(m) == own_thd[m] # NULL

\* The thread that run_next switched to continues, guard held by CPU c:
\*  - a new thread at thread_start (free the parked thread, unlock());
\*  - a thread that had called run_next, at the tail of run_next (free the
\*    parked thread) and then on in its caller.
resume(c) ==
  /\ guard = c /\ ~fault
  /\ current_thd[c] # NULL
  /\ LET t == current_thd[c]
         kf == [K0 EXCEPT !.st = free_st(st)]
     IN CASE st[t] \in {"start", "timer", "yield", "join", "lock", "cvlock"} ->
               /\ Return(c, [kf EXCEPT !.st[t] = AfterReturn(t)])
               /\ UNCHANGED sync_vars
          [] st[t] = "cvwait" ->
               \* cv::impl::wait goes on with mtx->lock()
               IF mutex_lock_blocks(wait_mtx[t])
               THEN /\ mutex_thd_q' = [mutex_thd_q EXCEPT ![wait_mtx[t]] = Append(@, t)]
                    /\ run_next(c, kf, idle_queue, "cvlock")
                    /\ UNCHANGED <<own_thd, cv_thd_q, wait_mtx>>
               ELSE /\ own_thd' = [own_thd EXCEPT ![wait_mtx[t]] = t]
                    /\ Return(c, [kf EXCEPT !.st[t] = "user"])
                    /\ UNCHANGED <<mutex_thd_q, cv_thd_q, wait_mtx>>
          [] st[t] = "idle" ->
               \* idle_func: suspended_queue.push(cpu::self()); unlock and suspend
               /\ Return(c, [kf EXCEPT !.st[t] = "parked", !.sq = Append(@, c)])
               /\ UNCHANGED sync_vars
          [] OTHER -> FALSE
  /\ last_free_thread' = free_slot
  /\ impl_ptr' = free_impl_ptr
  /\ parent' = free_parent
  /\ raised' = "none"
  /\ UNCHANGED <<join_thd, join_on, hlive, boot>>

\* ------------------------------------------------------------ idle_func
\* Mutant: the idle loop calls run_next without pushing itself on idle_queue.
idle_func_nopush(c) ==
  /\ guard = 0 /\ ~fault
  /\ current_thd[c] # NULL
  /\ st[current_thd[c]] = "idle_lock"
  /\ run_next(c, K0, idle_queue, "idle")
  /\ raised' = "none"
  /\ UNCHANGED <<last_free_thread, join_thd, join_on, handle_vars, sync_vars, boot>>

\* idle_func from lock() to run_next(): the idle thread pushes itself on idle_queue.
idle_func(c) ==
  /\ guard = 0 /\ ~fault
  /\ current_thd[c] # NULL
  /\ st[current_thd[c]] = "idle_lock"
  /\ run_next(c, K0, Append(idle_queue, current_thd[c]), "idle")
  /\ raised' = "none"
  /\ UNCHANGED <<last_free_thread, join_thd, join_on, handle_vars, sync_vars, boot>>

\* -------------------------------------------------------- timer_handler
\* Mutant: cpu::init installs timer_handler where it routes the timer vector
\* to ipi_handler (line 158).
timer_vector_early(b) == IF b = "off" THEN "ipi_handler" ELSE "timer_handler"

\* interrupt_vector_table[cpu::TIMER] of a CPU whose cpu::init stands at b
\* (the table is a member of the cpu object, one per CPU): ipi_handler from
\* line 158 on, timer_handler from line 168 on.
timer_vector(b) == IF b = "run" THEN "timer_handler" ELSE "ipi_handler"

\* Mutant: the handler takes the guard and never preempts.
timer_handler_nopreempt(c) ==
  /\ guard = 0 /\ ~fault
  /\ interrupts[c]
  /\ timer_vector(boot[c]) = "timer_handler"
  /\ current_thd[c] # NULL /\ st[current_thd[c]] = "parked"
  /\ Len(suspended_queue) < MaxSusp
  /\ Return(c, [K0 EXCEPT !.st[current_thd[c]] = "idle_lock"])
  /\ raised' = "none"
  /\ UNCHANGED <<last_free_thread, join_thd, join_on, handle_vars, sync_vars, boot>>

\* The timer interrupt on CPU c, whose interrupts are enabled: in user code, in
\* idle_func outside the guard, or parked (the interrupt ends the suspend).
\* With ready_queue empty the handler changes nothing; the step is listed only
\* where the interrupt ends a suspend.
timer_handler(c) ==
  /\ guard = 0 /\ ~fault
  /\ interrupts[c]
  /\ timer_vector(boot[c]) = "timer_handler"
  /\ LET t == current_thd[c]
         woken == IF t # NULL /\ st[t] = "parked"
                  THEN [K0 EXCEPT !.st[t] = "idle_lock"] ELSE K0
     IN IF ready_queue # <<>>
        THEN run_next(c, ready_push(woken, t), idle_queue, "timer")
        ELSE /\ t # NULL /\ st[t] = "parked"
             /\ Len(suspended_queue) < MaxSusp
             /\ Return(c, woken)
  /\ raised' = "none"
  /\ UNCHANGED <<last_free_thread, join_thd, join_on, handle_vars, sync_vars, boot>>

\* ------------------------------------------------------ thread lifecycle
\* thread::thread(fn, arg) with a non-null fn, for the handle at address h.
thread_ctor(c, h) ==
  /\ UserAt(c)
  /\ ~hlive[h]
  /\ FreshThreads # {}
  /\ Return(c, impl_ctor(K0, NewThread))
  /\ parent' = [parent EXCEPT ![NewThread] = h]
  /\ impl_ptr' = [impl_ptr EXCEPT ![h] = NewThread]
  /\ hlive' = [hlive EXCEPT ![h] = TRUE]
  /\ raised' = "none"
  /\ UNCHANGED <<last_free_thread, join_thd, join_on, sync_vars, boot>>

\* Mutant: the constructor goes on with a null function.
impl_ctor_throws_never(fn) == FALSE

\* thread::impl::impl, its first test: TRUE when it throws "nullptr function".
impl_ctor_throws(fn) == fn = "nullptr"

\* thread::thread(nullptr, arg): thread::impl::impl throws before anything is
\* pushed; no handle comes to exist; the lock_guard releases the guard.  (Past
\* the test the constructor would go on as for any function that is not
\* idle_func.)
thread_ctor_null(c) ==
  /\ UserAt(c)
  /\ IF impl_ctor_throws("nullptr")
     THEN /\ Return(c, K0)
          /\ raised' = "ctor: nullptr function"
          /\ UNCHANGED handle_vars
     ELSE /\ FreshThreads # {}
          /\ Return(c, impl_ctor(K0, NewThread))
          /\ raised' = "none"
          /\ \E h \in HANDLES :
               /\ ~hlive[h]
               /\ parent' = [parent EXCEPT ![NewThread] = h]
               /\ impl_ptr' = [impl_ptr EXCEPT ![h] = NewThread]
               /\ hlive' = [hlive EXCEPT ![h] = TRUE]
  /\ UNCHANGED <<last_free_thread, join_thd, join_on, sync_vars, boot>>

\* Mutant: the exiting thread leaves its handle pointing at it.
exit_sever_not(ip, t) == ip

\* thread_start: if (current_thd->parent != nullptr) current_thd->parent->impl_ptr = nullptr;
\* (the write lands at the address parent holds, whether or not a handle still lives there)
exit_sever(ip, t) == IF parent[t] # NULL THEN [ip EXCEPT ![parent[t]] = NULL] ELSE ip

\* thread_start after fn(arg) returned: release the joiners, sever the handle,
\* park in last_free_thread, run_next.
thread_exit(c) ==
  /\ UserAt(c)
  /\ LET t == current_thd[c]
     IN /\ run_next(c, drain(K0, join_thd[t]), idle_queue, "exited")
        /\ join_thd' = [join_thd EXCEPT ![t] = <<>>]
        /\ impl_ptr' = exit_sever(impl_ptr, t)
        /\ last_free_thread' = t
  /\ raised' = "none"
  /\ UNCHANGED <<parent, hlive, join_on, sync_vars, boot>>

\* thread::join on the handle at h.
thread_join(c, h) ==
  /\ UserAt(c)
  /\ hlive[h]
  /\ LET t == current_thd[c]
     IN IF impl_ptr[h] # NULL
        THEN /\ join_thd' = [join_thd EXCEPT ![impl_ptr[h]] = Append(@, t)]
             /\ join_on' = [join_on EXCEPT ![t] = impl_ptr[h]]
             /\ run_next(c, K0, idle_queue, "join")
        ELSE /\ Return(c, K0)
             /\ UNCHANGED <<join_thd, join_on>>
  /\ raised' = "none"
  /\ UNCHANGED <<last_free_thread, handle_vars, sync_vars, boot>>

\* thread::yield.
thread_yield(c) ==
  /\ UserAt(c)
  /\ IF ready_queue # <<>>
     THEN run_next(c, ready_push(K0, current_thd[c]), idle_queue, "yield")
     ELSE Return(c, K0)
  /\ raised' = "none"
  /\ UNCHANGED <<last_free_thread, join_thd, join_on, handle_vars, sync_vars, boot>>

\* thread::~thread on the handle at h (the impl is not deleted here: the
\* thread frees itself through last_free_thread).
thread_dtor(c, h) ==
  /\ UserAt(c)
  /\ hlive[h]
  /\ parent' = IF impl_ptr[h] # NULL THEN [parent EXCEPT ![impl_ptr[h]] = NULL] ELSE parent
  /\ impl_ptr' = [impl_ptr EXCEPT ![h] = NULL]
  /\ hlive' = [hlive EXCEPT ![h] = FALSE]
  /\ Return(c, K0)
  /\ raised' = "none"
  /\ UNCHANGED <<last_free_thread, join_thd, join_on, sync_vars, boot>>

\* The body shared by thread::thread(thread&&) and operator=(thread&&):
\*   impl_ptr = other.impl_ptr; other.impl_ptr = nullptr;
\*   if (impl_ptr != nullptr) impl_ptr->parent = this;
move_from(ip, par, this, other) ==
  LET ip1 == [ip EXCEPT ![this] = ip[other]]
      ip2 == [ip1 EXCEPT ![other] = NULL]
  IN [impl_ptr |-> ip2,
      parent |-> IF ip2[this] # NULL THEN [par EXCEPT ![ip2[this]] = this] ELSE par]

\* thread::thread(thread&& other): a new handle at address h.
thread_move_ctor(c, h, other) ==
  /\ UserAt(c)
  /\ ~hlive[h] /\ hlive[other]
  /\ LET r == move_from(impl_ptr, parent, h, other)
     IN impl_ptr' = r.impl_ptr /\ parent' = r.parent
  /\ hlive' = [hlive EXCEPT ![h] = TRUE]
  /\ Return(c, K0)
  /\ raised' = "none"
  /\ UNCHANGED <<last_free_thread, join_thd, join_on, sync_vars, boot>>

\* thread::operator=(thread&& other) on the handle at h (user code that
\* assigns a handle to itself is left out).
thread_move_assign(c, h, other) ==
  /\ UserAt(c)
  /\ hlive[h] /\ hlive[other] /\ h # other
  /\ LET r == move_from(impl_ptr, parent, h, other)
     IN impl_ptr' = r.impl_ptr /\ parent' = r.parent
  /\ Return(c, K0)
  /\ raised' = "none"
  /\ UNCHANGED <<last_free_thread, join_thd, join_on, hlive, sync_vars, boot>>

\* ---------------------------------------------------------------- mutex
\* mutex::lock.
mutex_lock(c, m) ==
  /\ UserAt(c)
  /\ LET t == current_thd[c]
     IN IF mutex_lock_blocks(m)
        THEN /\ mutex_thd_q' = [mutex_thd_q EXCEPT ![m] = Append(@, t)]
             /\ run_next(c, K0, idle_queue, "lock")
             /\ UNCHANGED own_thd
        ELSE /\ own_thd' = [own_thd EXCEPT ![m] = t]
             /\ Return(c, K0)
             /\ UNCHANGED mutex_thd_q
  /\ raised' = "none"
  /\ UNCHANGED <<last_free_thread, join_thd, join_on, handle_vars, cv_thd_q, wait_mtx, boot>>

\* Mutant: unlock without the ownership test.
mutex_unlock_throws_never(m, t) == FALSE

\* mutex::impl::unlock's test: TRUE when it throws "release not-own".
mutex_unlock_throws(m, t) == own_thd[m] # t

\* mutex::unlock.
mutex_unlock(c, m) ==
  /\ UserAt(c)
  /\ IF mutex_unlock_throws(m, current_thd[c])
     THEN /\ Return(c, K0)
          /\ raised' = "unlock: release not-own"
          /\ UNCHANGED <<own_thd, mutex_thd_q>>
     ELSE LET r == mutex_unlock_handoff(K0, mutex_thd_q[m])
          IN /\ own_thd' = [own_thd EXCEPT ![m] = r.own]
             /\ mutex_thd_q' = [mutex_thd_q EXCEPT ![m] = r.q]
             /\ Return(c, r.k)
             /\ raised' = "none"
  /\ UNCHANGED <<last_free_thread, join_thd, join_on, handle_vars, cv_thd_q, wait_mtx, boot>>

\* ------------------------------------------------------------------- cv
\* cv::wait up to its run_next: unlock the mutex, queue on the cv, switch.
cv_wait(c, v, m) ==
  /\ UserAt(c)
  /\ LET t == current_thd[c]
     IN IF mutex_unlock_throws(m, t)
        THEN /\ Return(c, K0)
             /\ raised' = "unlock: release not-own"
             /\ UNCHANGED sync_vars
        ELSE LET r == mutex_unlock_handoff(K0, mutex_thd_q[m])
             IN /\ own_thd' = [own_thd EXCEPT ![m] = r.own]
                /\ mutex_thd_q' = [mutex_thd_q EXCEPT ![m] = r.q]
                /\ cv_thd_q' = [cv_thd_q EXCEPT ![v] = Append(@, t)]
                /\ wait_mtx' = [wait_mtx EXCEPT ![t] = m]
                /\ run_next(c, r.k, idle_queue, "cvwait")
                /\ raised' = "none"
  /\ UNCHANGED <<last_free_thread, join_thd, join_on, handle_vars, boot>>

\* Mutant: signal makes the head waiter ready and leaves it on the cv's queue.
cv_signal_move_nopop(k, q) ==
  IF q # <<>>
  THEN [q |-> q, k |-> wakeup_one_cpu(ready_push(k, Head(q)))]
  ELSE [q |-> q, k |-> k]

\* cv::impl::signal on the scheduler state and the cv's queue.
cv_signal_move(k, q) ==
  IF q # <<>>
  THEN [q |-> Tail(q), k |-> wakeup_one_cpu(ready_push(k, Head(q)))]
  ELSE [q |-> q, k |-> k]

\* cv::signal.
cv_signal(c, v) ==
  /\ UserAt(c)
  /\ LET r == cv_signal_move(K0, cv_thd_q[v])
     IN /\ cv_thd_q' = [cv_thd_q EXCEPT ![v] = r.q]
        /\ Return(c, r.k)
  /\ raised' = "none"
  /\ UNCHANGED <<last_free_thread, join_thd, join_on, handle_vars, own_thd,
                 mutex_thd_q, wait_mtx, boot>>

\* cv::broadcast.
cv_broadcast(c, v) ==
  /\ UserAt(c)
  /\ cv_thd_q' = [cv_thd_q EXCEPT ![v] = <<>>]
  /\ Return(c, drain(K0, cv_thd_q[v]))
  /\ raised' = "none"
  /\ UNCHANGED <<last_free_thread, join_thd, join_on, handle_vars, own_thd,
                 mutex_thd_q, wait_mtx, boot>>

\* What every run has: boot, the scheduler, the timer, and threads that are
\* constructed, yield and return.
NextCore ==
  \/ \E c \in CPUS : cpu_init_main(c)
  \/ \E c \in CPUS : cpu_init_idle(c)
  \/ \E c \in CPUS : cpu_init_run(c)
  \/ \E c \in CPUS : resume(c)
  \/ \E c \in CPUS : idle_func(c)
  \/ \E c \in CPUS : timer_handler(c)
  \/ \E c \in CPUS, h \in HANDLES : thread_ctor(c, h)
  \/ \E c \in CPUS : thread_exit(c)
  \/ \E c \in CPUS : thread_yield(c)

NextSyncOps ==
  \/ \E c \in CPUS, m \in MUTEXES : mutex_lock(c, m)
  \/ \E c \in CPUS, m \in MUTEXES : mutex_unlock(c, m)
  \/ \E c \in CPUS, v \in CVS, m \in MUTEXES : cv_wait(c, v, m)
  \/ \E c \in CPUS, v \in CVS : cv_signal(c, v)
  \/ \E c \in CPUS, v \in CVS : cv_broadcast(c, v)

NextHandleOps ==
  \/ \E c \in CPUS : thread_ctor_null(c)
  \/ \E c \in CPUS, h \in HANDLES : thread_join(c, h)
  \/ \E c \in CPUS, h \in HANDLES : thread_dtor(c, h)
  \/ \E c \in CPUS, h \in HANDLES, o \in HANDLES : thread_move_ctor(c, h, o)
  \/ \E c \in CPUS, h \in HANDLES, o \in HANDLES : thread_move_assign(c, h, o)

\* User code that may call every public operation.
Next == NextCore \/ NextSyncOps \/ NextHandleOps
Spec == Init /\ [][Next]_vars

\* User code that constructs threads and uses mutexes and condition variables,
\* and leaves its thread handles alone.
NextSync == NextCore \/ NextSyncOps
SpecSync == InitSync /\ [][NextSync]_vars

\* User code that constructs, moves, destroys and joins threads, and uses no
\* mutex and no condition variable.
NextHandle == NextCore \/ NextHandleOps
SpecHandle == InitSync /\ [][NextHandle]_vars

\* User code that constructs threads, yields and returns, under the
\* scheduling the hardware gives: the timer of every CPU keeps ticking, and a
\* CPU that can execute its next instructions (the boot sequence, the code
\* after a context switch, the idle loop) does so.  Nothing is assumed about
\* user code: a user thread may compute forever.
SpecLive ==
  /\ InitSync
  /\ [][NextCore]_vars
  /\ \A c \in CPUS :
       /\ WF_vars(timer_handler(c))
       /\ WF_vars(resume(c))
       /\ WF_vars(idle_func(c))
       /\ WF_vars(cpu_init_main(c))
       /\ WF_vars(cpu_init_idle(c))
       /\ WF_vars(cpu_init_run(c))

\* ======================================================== the claims
\* C1: whenever the guard is free, a mutex with waiters has an owner; and a
\* thread that was not waiting becomes owner only of a mutex nobody waits
\* for (unlock hands the mutex to the head waiter, nobody barges in).
C1_HandOff ==
  /\ [](guard = 0 => \A m \in MUTEXES : mutex_thd_q[m] # <<>> => own_thd[m] # NULL)
  /\ [][\A m \in MUTEXES :
          (own_thd'[m] # own_thd[m] /\ own_thd'[m] # NULL
             /\ own_thd'[m] \notin Range(mutex_thd_q[m]))
          => mutex_thd_q[m] = <<>>]_vars

\* The hand-off window: the guard is free, the mutex belongs to a thread that
\* still sits on ready_queue inside lock(), and another thread waits behind it.
C1_Witness ==
  /\ guard = 0
  /\ \E m \in MUTEXES :
       /\ own_thd[m] # NULL
       /\ st[own_thd[m]] = "lock"
       /\ own_thd[m] \in Range(ready_queue)
       /\ mutex_thd_q[m] # <<>>

\* C2: blocked threads become owner in the order in which they blocked: in
\* every step the waiters that stay keep their order in front of the newly
\* blocked ones, a waiter leaves the queue only from its head, and only by
\* becoming the owner.
C2_MutexFifo ==
  [][\A m \in MUTEXES :
       LET q == mutex_thd_q[m]
           q2 == mutex_thd_q'[m]
       IN /\ (own_thd'[m] # own_thd[m] /\ own_thd'[m] \in Range(q))
               => own_thd'[m] = Head(q)
          /\ \E n \in {0, 1} :
               /\ n <= Len(q)
               /\ Len(q2) >= Len(q) - n
               /\ SubSeq(q2, 1, Len(q) - n) = SubSeq(q, n + 1, Len(q))
               /\ n = 1 => own_thd'[m] = Head(q)]_vars

\* Two threads blocked on the mutex, one after the other.
C2_Witness ==
  \E m \in MUTEXES :
    /\ Len(mutex_thd_q[m]) >= 2
    /\ \A i \in 1..Len(mutex_thd_q[m]) : st[mutex_thd_q[m][i]] \in {"lock", "cvlock"}

\* C3: mutex::unlock by a thread that is not the owner throws "release
\* not-own", changes neither the mutex nor ready_queue nor suspended_queue,
\* and returns with the guard released.
C3_OwnerOnlyUnlock ==
  [][\A c \in CPUS, m \in MUTEXES :
       (mutex_unlock(c, m) /\ own_thd[m] # current_thd[c])
       => /\ raised' = "unlock: release not-own"
          /\ UNCHANGED <<own_thd, mutex_thd_q, ready_queue, suspended_queue>>
          /\ guard' = 0]_vars

\* The error was thrown for a mutex that another thread holds with a waiter queued.
C3_Witness ==
  /\ raised = "unlock: release not-own"
  /\ guard = 0
  /\ \E m \in MUTEXES : own_thd[m] # NULL /\ mutex_thd_q[m] # <<>>

\* C4: a thread that returns from cv::wait(m) to user code owns m.
C4_WaitRelocks ==
  [][\A t \in THREADS :
       (st[t] \in {"cvwait", "cvlock"} /\ st'[t] = "user")
       => own_thd'[wait_mtx[t]] = t]_vars

\* A waiter that was signalled while another thread held the mutex, had to
\* queue in mtx->lock(), and now runs again with the guard held: the next
\* step returns from cv::wait.
C4_Witness ==
  \E c \in CPUS :
    /\ guard = c
    /\ current_thd[c] # NULL
    /\ st[current_thd[c]] = "cvlock"

ParkedNow(c) == Parked(st, c)

\* C6: once a thread was pushed on ready_queue while a CPU was parked, no
\* CPU enters suspend before some CPU has been sent an IPI.
C6_NoLostWakeup ==
  [][wake_owed => \A c \in CPUS : ParkedNow(c)' => ParkedNow(c)]_vars

\* C7: no CPU runs a freed thread; a thread parked in last_free_thread is
\* current on no CPU (whoever frees it runs on another stack); and the only
\* exited thread not yet freed is the one in last_free_thread (at most one in
\* the whole system, hence at most one per CPU).
C7_DeferredFree ==
  /\ \A c \in CPUS : current_thd[c] # NULL => st[current_thd[c]] # "freed"
  /\ fault \/ last_free_thread = NULL \/ \A c \in CPUS : current_thd[c] # last_free_thread
  /\ {t \in THREADS : st[t] = "exited"} \subseteq {last_free_thread}

\* A thread has exited and been freed while both CPUs are in the scheduler
\* and another exited thread sits in last_free_thread.
C7_Witness ==
  /\ last_free_thread # NULL
  /\ \E t \in THREADS : st[t] = "freed"
  /\ \A c \in CPUS : current_thd[c] # NULL

CountIn(q, t) == Cardinality({i \in 1..Len(q) : q[i] = t})

RECURSIVE SumCount(_, _, _)
SumCount(f, S, t) ==
  IF S = {} THEN 0
  ELSE LET x == CHOOSE y \in S : TRUE
       IN CountIn(f[x], t) + SumCount(f, S \ {x}, t)

\* The number of places that refer to thread t.
Refs(t) ==
  Cardinality({c \in CPUS : current_thd[c] = t})
  + CountIn(ready_queue, t) + CountIn(idle_queue, t)
  + SumCount(mutex_thd_q, MUTEXES, t) + SumCount(cv_thd_q, CVS, t)
  + SumCount(join_thd, THREADS, t)
  + (IF last_free_thread = t THEN 1 ELSE 0)

\* C8: whenever the guard is free, every thread is referred to from at most
\* one place, at most once.
C8_SingleReference == guard = 0 => \A t \in THREADS : Refs(t) <= 1

\* An idle thread that the timer preempted sits on ready_queue.
C8_Witness ==
  /\ guard = 0
  /\ \E t \in IDLE_THREADS : t \in Range(ready_queue) /\ st[t] = "timer"

Live(t) == st[t] \notin {"none", "freed"}

\* C9: whenever the guard is free, a live handle holds a thread exactly when
\* the thread's back-link points at the handle.
C9_BackLinkConsistent ==
  guard = 0 =>
    \A h \in HANDLES, t \in THREADS :
      (hlive[h] /\ Live(t)) => (impl_ptr[h] = t <=> parent[t] = h)

\* C10: the back-link of a live thread is null or points at a live handle.
C10_NoDanglingBackLink ==
  \A t \in THREADS : (Live(t) /\ parent[t] # NULL) => hlive[parent[t]]

\* CPU c is between a context switch in run_next and the release of the guard
\* by the thread it switched to.
InSwitch(c) ==
  /\ current_thd[c] # NULL
  /\ st[current_thd[c]] \notin {"user", "idle_lock", "parked"}

\* C11: at most one CPU is inside a guard-held section and it is the one the
\* guard records; that CPU has interrupts disabled; the guard taken by the
\* thread that called run_next is given up only by the thread that resumed on
\* the same CPU, which then is back in its caller (user code, idle_func in
\* front of lock(), or suspended) with interrupts enabled.
C11_GuardDiscipline ==
  /\ [](\A c \in CPUS, d \in CPUS : (InSwitch(c) /\ InSwitch(d)) => c = d)
  /\ [](\A c \in CPUS : InSwitch(c) <=> guard = c)
  /\ [](\A c \in CPUS : guard = c => ~interrupts[c])
  /\ [][(guard # 0 /\ guard' # guard)
        => /\ guard' = 0
           /\ current_thd'[guard] = current_thd[guard]
           /\ st'[current_thd[guard]] \in {"user", "idle_lock", "parked"}
           /\ interrupts'[guard]]_vars

\* CPU c holds the guard across a switch to a thread that the timer had
\* preempted, while another CPU runs user code with interrupts enabled.
C11_Witness ==
  \E c \in CPUS, d \in CPUS :
    /\ c # d
    /\ guard = c /\ InSwitch(c) /\ st[current_thd[c]] = "timer"
    /\ interrupts[d] /\ current_thd[d] # NULL /\ st[current_thd[d]] = "user"

\* C12: whenever the guard is free, every entry of suspended_queue is a CPU
\* that is inside interrupt_enable_suspend, and no CPU is entered twice.
C12_SuspendedAreParked ==
  guard = 0 =>
    /\ \A i \in 1..Len(suspended_queue) : ParkedNow(suspended_queue[i])
    /\ \A i \in 1..Len(suspended_queue), j \in 1..Len(suspended_queue) :
         suspended_queue[i] = suspended_queue[j] => i = j

\* C13: ready_queue is first in, first out: in every step the threads that
\* were waiting stay in their order in front of every thread pushed in the
\* step, and a thread leaves the queue only from its head, and only by
\* becoming the current thread of a CPU; so a thread pushed behind another
\* is made current after it.
C13_ReadyFifo ==
  [][\E n \in {0, 1} :
       /\ n <= Len(ready_queue)
       /\ Len(ready_queue') >= Len(ready_queue) - n
       /\ SubSeq(ready_queue', 1, Len(ready_queue) - n)
            = SubSeq(ready_queue, n + 1, Len(ready_queue))
       /\ n = 1 => \E c \in CPUS : /\ current_thd'[c] = Head(ready_queue)
                                   /\ current_thd[c] # Head(ready_queue)]_vars

\* A CPU has just taken the head of ready_queue while two threads that were
\* pushed at different times still wait behind it.
C13_Witness ==
  /\ guard # 0
  /\ Len(ready_queue) >= 2
  /\ st[current_thd[guard]] \in {"start", "timer", "yield", "lock", "cvwait"}
  /\ st[ready_queue[1]] # st[ready_queue[2]]

\* C14: cv::signal moves the head of the cv's queue to the tail of
\* ready_queue and leaves the other waiters as they were, or changes no queue
\* when nobody waits; cv::broadcast appends all waiters to ready_queue in
\* their order and leaves the cv's queue empty.
C14_SignalBroadcastOrder ==
  /\ [][\A c \in CPUS, v \in CVS :
          cv_signal(c, v) =>
            IF cv_thd_q[v] = <<>>
            THEN UNCHANGED <<cv_thd_q, ready_queue, suspended_queue, st>>
            ELSE /\ cv_thd_q'[v] = Tail(cv_thd_q[v])
                 /\ ready_queue' = Append(ready_queue, Head(cv_thd_q[v]))]_vars
  /\ [][\A c \in CPUS, v \in CVS :
          cv_broadcast(c, v) =>
            /\ cv_thd_q'[v] = <<>>
            /\ ready_queue' = ready_queue \o cv_thd_q[v]]_vars

\* Two threads that waited on the cv sit on ready_queue one behind the other,
\* the cv's queue is empty and the caller has returned.
C14_Witness ==
  /\ guard = 0
  /\ \A v \in CVS : cv_thd_q[v] = <<>>
  /\ \E i \in 1..Len(ready_queue) :
       /\ i + 1 <= Len(ready_queue)
       /\ st[ready_queue[i]] = "cvwait" /\ st[ready_queue[i + 1]] = "cvwait"

\* C15: thread::thread with a null function throws "nullptr function", puts
\* no thread on ready_queue or idle_queue, creates no thread, wakes no CPU
\* and leaves suspended_queue as it was, and returns with the guard released
\* and the interrupts of the calling CPU enabled.
C15_NullCtorThrows ==
  [][\A c \in CPUS :
       thread_ctor_null(c) =>
         /\ raised' = "ctor: nullptr function"
         /\ UNCHANGED <<ready_queue, idle_queue, suspended_queue, st, current_thd,
                        impl_ptr, parent>>
         /\ guard' = 0
         /\ interrupts'[c]]_vars

\* The error was thrown while a CPU was suspended and entered in
\* suspended_queue: a constructor that had pushed a thread would have sent it
\* an IPI.
C15_Witness ==
  /\ raised = "ctor: nullptr function"
  /\ guard = 0
  /\ suspended_queue # <<>>
  /\ \E c \in CPUS : ParkedNow(c)

\* C16: run_next never finds ready_queue and idle_queue both empty.
C16_RunNextHasThread == ~fault

\* run_next, called by a thread that blocked or exited while ready_queue was
\* empty, has taken an idle thread from idle_queue, at a time when another
\* CPU has not yet reached the run_next of its cpu::init.
C16_Witness ==
  /\ guard # 0
  /\ current_thd[guard] \in IDLE_THREADS
  /\ st[current_thd[guard]] \in {"start", "idle"}
  /\ ready_queue = <<>>
  /\ \E t \in USER_THREADS : st[t] \in {"exited", "join", "lock", "cvwait"}
  /\ \E c \in CPUS : boot[c] # "run"

\* C17: a step that is not a yield and leaves on ready_queue a thread that was
\* not there before has called wakeup_one_cpu after the push: it has taken an
\* entry off suspended_queue if there was one (ready_queue was not empty
\* right after the push).
C17_PushThenWakeup ==
  [][(/\ ~(\E c \in CPUS : thread_yield(c))
      /\ Range(ready_queue') \ Range(ready_queue) # {}
      /\ suspended_queue # <<>>)
     => Len(suspended_queue') < Len(suspended_queue)]_vars

\* C18: every thread on ready_queue is eventually the current thread of some
\* CPU.
C18_ReadyThreadRuns ==
  \A t \in THREADS :
    (t \in Range(ready_queue)) ~> (\E c \in CPUS : current_thd[c] = t)

\* Both CPUs run user threads in user code, the guard is free, and a third
\* user thread waits on ready_queue: only a timer tick can make it run.
C18_Witness ==
  /\ guard = 0
  /\ \A c \in CPUS : current_thd[c] \in USER_THREADS /\ st[current_thd[c]] = "user"
  /\ \E t \in USER_THREADS : t \in Range(ready_queue)

\* C19: a CPU that has made the run_next of its cpu::init has a current
\* thread, and no queue holds a null entry.
C19_CurrentNeverNull ==
  /\ \A c \in CPUS : boot[c] = "run" => current_thd[c] # NULL
  /\ NULL \notin Range(ready_queue) \cup Range(idle_queue)
  /\ \A m \in MUTEXES : NULL \notin Range(mutex_thd_q[m])
  /\ \A v \in CVS : NULL \notin Range(cv_thd_q[v])
  /\ \A t \in THREADS : NULL \notin Range(join_thd[t])

\* A CPU is inside cpu::init with interrupts enabled and no current thread
\* while ready_queue holds a thread that the timer handler of another CPU
\* pushed: a timer interrupt on the booting CPU meets ipi_handler.
C19_Witness ==
  /\ guard = 0
  /\ \E c \in CPUS : boot[c] \in {"main", "idle"} /\ interrupts[c] /\ current_thd[c] = NULL
  /\ \E i \in 1..Len(ready_queue) : st[ready_queue[i]] = "timer"

\* C20: last_free_thread is empty whenever the guard is free; a thread is put
\* in the slot only when the slot is empty; the step after the one that
\* filled the slot empties it and frees the thread; the slot never holds a
\* thread that is already freed, an exited thread is nowhere but in the slot,
\* and a freed thread stays freed.
C20_SlotReclaimed ==
  /\ [](guard = 0 => last_free_thread = NULL)
  /\ [](last_free_thread # NULL => st[last_free_thread] = "exited")
  /\ [](\A t \in THREADS : st[t] = "exited" => last_free_thread = t)
  /\ [][(last_free_thread' # NULL /\ last_free_thread' # last_free_thread)
        => last_free_thread = NULL]_vars
  /\ [][last_free_thread # NULL
        => (last_free_thread' = NULL /\ st'[last_free_thread] = "freed")]_vars
  /\ [][\A t \in THREADS : st[t] = "freed" => st'[t] = "freed"]_vars

\* An exited thread sits in the slot and a new thread is about to start in
\* thread_start, which reclaims it; an earlier thread has been reclaimed
\* already.
C20_Witness ==
  /\ guard # 0
  /\ last_free_thread # NULL
  /\ st[current_thd[guard]] = "start"
  /\ \E t \in THREADS : st[t] = "freed"
====
